---- MODULE Spec2Model ----
(***************************************************************************)
(* Model of the worker loop of slimevr-wrangler                            *)
(* (src/src/joycon/communication.rs): the device registry and its sensor   *)
(* ids, the handshake / keep-alive state machine, the packets sent for     *)
(* each input message and the status snapshot published per iteration.     *)
(*                                                                         *)
(* Time is a whole number of seconds (`now`); Instant::elapsed().as_secs() *)
(* is now - t.  The socket and the input channel are the environment:      *)
(* each socket.recv() either yields some datagram or reports that none is  *)
(* pending, each step of receive.try_iter() either yields some message or  *)
(* ends the drain.  Every send_to(..).unwrap() either succeeds or panics,  *)
(* which ends the thread (pc = "panicked").                                *)
(***************************************************************************)
EXTENDS Integers, Sequences, FiniteSets, TLC

\* ------------------------------------------------------------ bounds
\* distinct serial numbers the producers of Spec use
MaxSerials == 2
\* the clock of LinkSpec stops ticking at MaxTime seconds
MaxTime == 4
\* distinct serial numbers the producers of LinkSpec use
LinkSerials == 2
\* distinct serial numbers registered under WrapSpec (one more than 2^8)
ManySerials == 257

\* ------------------------------------------------- program constants
\* Device.id is a u8: `devices.len() as _` keeps the low 8 bits
IdModulus == 256
\* let mut buf = [0; 512]
BufSize == 512
\* last_handshake.elapsed().as_secs() >= 3
HandshakeRetrySecs == 3
\* last_ping.elapsed().as_secs() >= 3
KeepAliveSecs == 3
\* Instant::now() - Duration::from_secs(60)
HandshakeBackdateSecs == 60

\* ------------------------------------------------------------ inputs
Serials == 1..MaxSerials
Designs == {"left", "right"}
\* settings.joycon_rotation_get(serial): i32 degrees
Offsets == {-180, 0, 180}

\* ------------------------------------------------------ small helpers
Min(a, b) == IF a <= b THEN a ELSE b

Zeros(n) == [i \in 1..n |-> 0]

\* the first n elements of s
Take(s, n) == SubSeq(s, 1, n)

\* ----------------------------------------------------------- numbers
\* An f64 x is the integer x * One.  The values used are multiples of 1/5
\* wherever two of them are multiplied, so every product is exact.
One == 5 * 5

\* a * b
Mul(a, b) == (a * b) \div One

\* ------------------------------------------------------- quaternions
\* A quaternion is <<x, y, z, w>> (nalgebra's coords order).
QIdentity == <<0, 0, 0, One>>

\* Hamilton product a * b
QMul(a, b) ==
    << Mul(a[4], b[1]) + Mul(a[1], b[4]) + Mul(a[2], b[3]) - Mul(a[3], b[2]),
       Mul(a[4], b[2]) - Mul(a[1], b[3]) + Mul(a[2], b[4]) + Mul(a[3], b[1]),
       Mul(a[4], b[3]) + Mul(a[1], b[2]) - Mul(a[2], b[1]) + Mul(a[3], b[4]),
       Mul(a[4], b[4]) - Mul(a[1], b[1]) - Mul(a[2], b[2]) - Mul(a[3], b[3]) >>

\* cos and sin of a whole number of half turns, in degrees
CosDeg(d) == IF (d \div 180) % 2 = 0 THEN One ELSE -One
SinDeg(d) == 0
\* cos and sin of half the angle, for multiples of 180 degrees
CosHalfDeg(d) == CASE (d \div 180) % 4 = 0 -> One
                   [] (d \div 180) % 4 = 2 -> -One
                   [] OTHER -> 0
SinHalfDeg(d) == CASE (d \div 180) % 4 = 1 -> One
                   [] (d \div 180) % 4 = 3 -> -One
                   [] OTHER -> 0

\* UnitQuaternion::from_axis_angle(&Vector3::z_axis(), rad)
FromAxisAngleZ(deg) == <<0, 0, SinHalfDeg(deg), CosHalfDeg(deg)>>

\* -------------------------------------------------------------- Imu
\* One raw axis frame: the rotation the gyro reports for the frame and the
\* accelerometer reading.
FrameRest ==
    [gyro |-> QIdentity, accel_x |-> 0, accel_y |-> 0, accel_z |-> One]
FrameTurn ==
    [gyro |-> <<One, 0, 0, 0>>, accel_x |-> 0, accel_y |-> 0, accel_z |-> One]
FramePush ==
    [gyro |-> QIdentity, accel_x |-> One, accel_y |-> 2 * One, accel_z |-> One]

\* JoyconData.imu_data: [JoyconAxisData; 3]
ImuDataSet == { <<FrameTurn, FrameTurn, FrameRest>>,
                <<FrameRest, FrameRest, FramePush>> }

ImuNew == [rotation |-> QIdentity]

ImuUpdate(imu, frame) == [rotation |-> QMul(imu.rotation, frame.gyro)]

\* Imu::euler_angles_deg, for the axis-aligned half turns
EulerAnglesDeg(imu) ==
    LET q == imu.rotation IN
    CASE q[1] # 0 -> <<180, 0, 0>>
      [] q[2] # 0 -> <<180, 0, 180>>
      [] q[3] # 0 -> <<0, 0, 180>>
      [] OTHER    -> <<0, 0, 0>>

\* ------------------------------------------------------ wire packets
HandshakePacket ==
    [type |-> "Handshake", packet_id |-> 0, board |-> 0, imu |-> 0,
     mcu_type |-> 0, imu_info |-> <<0, 0, 0>>, build |-> 0,
     firmware |-> "slimevr-wrangler", mac_address |-> <<0, 15, 0, 15, 0, 15>>]

SensorInfoPacket(id) ==
    [type |-> "SensorInfo", packet_id |-> 0, sensor_id |-> id,
     sensor_status |-> 1, sensor_type |-> 0]

RotationDataPacket(id, quat) ==
    [type |-> "RotationData", packet_id |-> 0, sensor_id |-> id,
     data_type |-> 1, quat |-> quat, calibration_info |-> 0]

AccelerationPacket(id, vec) ==
    [type |-> "Acceleration", packet_id |-> 0, vector |-> vec, sensor_id |-> id]

\* socket.send_to(&buf[0..len], address): the bytes as they are
RawPacket(bytes) == [type |-> "Raw", bytes |-> bytes]

\* --------------------------------------------------------- datagrams
\* Packets start with a big-endian u32 tag; the Ping tag is 10 and a Ping
\* carries a u32 id.
PingTag == <<0, 0, 0, 10>>
PingLen == 8

\* PacketType::from_bytes((bytes, 0)) yields Ok((_, Ping {..}))
ParsesAsPing(bytes) ==
    /\ Len(bytes) >= PingLen
    /\ Take(bytes, 4) = PingTag

PingDatagram      == <<0, 0, 0, 10, 0, 0, 0, 7>>
HeartbeatDatagram == <<0, 0, 0, 1>>
EmptyDatagram     == <<>>
Datagrams == {PingDatagram, HeartbeatDatagram, EmptyDatagram}

\* --------------------------------------------------------- the state
VARIABLES
    pc,               \* where the thread is: "top", "recv", "drain", "panicked"
    now,              \* Instant::now(), in seconds since the loop started
    connected,        \* let mut connected
    last_handshake,   \* let mut last_handshake
    last_ping,        \* let mut last_ping
    buf,              \* let mut buf = [0; 512]: the bytes up to the last one
                      \* ever written; the bytes after them are still 0
    devices,          \* HashMap<String, Device>: serial -> [imu, design, id]
    settings,         \* the configuration snapshot of this iteration
    received_message, \* let mut received_message
    out,              \* the packets the last step handed to send_to, in order
    ev,               \* the last step and its input
    order,            \* history: the serials in the order they were registered
    hs_sent_at,       \* history: when a Handshake packet was last sent, or -1
    ping_seen_at      \* history: when a datagram that is a Ping last came, or -1

vars == <<pc, now, connected, last_handshake, last_ping, buf, devices, settings,
          received_message, out, ev, order, hs_sent_at, ping_seen_at>>

\* The configuration snapshots settings.load() can return
SettingsSet == {[s \in Serials |-> o] : o \in Offsets}

\* No snapshot is loaded: `settings` is a local of the loop body
NoSettings == <<>>

\* settings.joycon_rotation_get(serial)
JoyconRotationGet(st, serial) == IF serial \in DOMAIN st THEN st[serial] ELSE 0

\* The 512 bytes of buf
BufBytes(b) == b \o Zeros(BufSize - Len(b))

\* socket.recv(&mut buf): the length it returns
RecvLen(d) == Min(Len(d), BufSize)

\* socket.recv(&mut buf): the datagram overwrites the front of buf
RecvInto(b, d) ==
    Take(d, RecvLen(d)) \o SubSeq(b, RecvLen(d) + 1, Len(b))

\* devices.len() as u8
NextId(devs) == Cardinality(DOMAIN devs) % IdModulus

\* devices.values().sorted_by_key(|d| d.id), as the serials of the devices
\* (devices of equal id produce equal packets, whichever comes first)
RECURSIVE SortedById(_, _)
SortedById(devs, S) ==
    IF S = {} THEN <<>>
    ELSE LET s == CHOOSE x \in S : \A y \in S : devs[x].id <= devs[y].id
         IN  <<s>> \o SortedById(devs, S \ {s})

\* slime_handshake, then Device::handshake of every device by id
HandshakePackets(devs) ==
    LET ss == SortedById(devs, DOMAIN devs)
    IN  <<HandshakePacket>> \o [i \in 1..Len(ss) |-> SensorInfoPacket(devs[ss[i]].id)]

\* device.imu.update(frame) for each frame of data.imu_data
ImuAfter(imu, imu_data) ==
    ImuUpdate(ImuUpdate(ImuUpdate(imu, imu_data[1]), imu_data[2]), imu_data[3])

\* rotated_quat
RotatedQuat(rotation, joycon_rotation) ==
    IF joycon_rotation > 0
    THEN QMul(rotation, FromAxisAngleZ(joycon_rotation))
    ELSE rotation

\* (mutant) the second coordinate of gravity loses its sign
CalcAccelerationGravityFlipped(rotation, axisdata, deg) ==
    LET x == rotation[1]
        y == rotation[2]
        z == rotation[3]
        w == rotation[4]
        gravity == << 2 * (Mul(-x, -z) - Mul(w, y)),
                      2 * (Mul(w, -x) + Mul(y, -z)),
                      Mul(w, w) - Mul(x, x) - Mul(y, y) + Mul(z, z) >>
        vx == axisdata.accel_x - gravity[1]
        vy == axisdata.accel_y - gravity[2]
        vz == axisdata.accel_z - gravity[3]
    IN  << Mul(vx, CosDeg(deg)) - Mul(vy, SinDeg(deg)),
           Mul(vx, SinDeg(deg)) + Mul(vy, CosDeg(deg)),
           vz >>

\* calc_acceleration(rotation, axisdata, rad_rotation)
CalcAcceleration(rotation, axisdata, deg) ==
    LET x == rotation[1]
        y == rotation[2]
        z == rotation[3]
        w == rotation[4]
        gravity == << 2 * (Mul(-x, -z) - Mul(w, y)),
                      (-2) * (Mul(w, -x) + Mul(y, -z)),
                      Mul(w, w) - Mul(x, x) - Mul(y, y) + Mul(z, z) >>
        vx == axisdata.accel_x - gravity[1]
        vy == axisdata.accel_y - gravity[2]
        vz == axisdata.accel_z - gravity[3]
    IN  << Mul(vx, CosDeg(deg)) - Mul(vy, SinDeg(deg)),
           Mul(vx, SinDeg(deg)) + Mul(vy, CosDeg(deg)),
           vz >>

\* The two packets of one Data message
DataPackets(device, imu_data, joycon_rotation) ==
    LET imu == ImuAfter(device.imu, imu_data)
    IN  << RotationDataPacket(device.id, RotatedQuat(imu.rotation, joycon_rotation)),
           AccelerationPacket(device.id,
               CalcAcceleration(imu.rotation, imu_data[3], joycon_rotation)) >>

\* JoyconStatus of one device
StatusOf(devs, st, serial) ==
    [connected     |-> TRUE,
     rotation      |-> EulerAnglesDeg(devs[serial].imu),
     design        |-> devs[serial].design,
     mount_rotation |-> JoyconRotationGet(st, serial),
     serial_number |-> serial]

\* send_to(..).unwrap() of pkts in turn; the k-th fails (k = 0: none does).
\* The packets up to the failing one were handed to the socket.
Attempted(pkts, k) == IF k = 0 THEN pkts ELSE Take(pkts, k)
AfterSends(k, next_pc) == IF k = 0 THEN next_pc ELSE "panicked"

\* (mutant) last_handshake starts at the time the loop starts
InitNotBackdated ==
    /\ pc = "top"
    /\ now = 0
    /\ connected = FALSE
    /\ last_handshake = 0
    /\ last_ping = 0
    /\ buf = <<>>
    /\ devices = <<>>
    /\ settings = NoSettings
    /\ received_message = FALSE
    /\ out = <<>>
    /\ ev = [op |-> "init"]
    /\ order = <<>>
    /\ hs_sent_at = -1
    /\ ping_seen_at = -1

Init ==
    /\ pc = "top"
    /\ now = 0
    /\ connected = FALSE
    /\ last_handshake = 0 - HandshakeBackdateSecs
    /\ last_ping = 0
    /\ buf = <<>>
    /\ devices = <<>>
    /\ settings = NoSettings
    /\ received_message = FALSE
    /\ out = <<>>
    /\ ev = [op |-> "init"]
    /\ order = <<>>
    /\ hs_sent_at = -1
    /\ ping_seen_at = -1

\* (mutant) the retry is due whatever the connected flag says
HandshakeDueWhateverConnected == now - last_handshake >= HandshakeRetrySecs

\* The handshake retry is due
HandshakeDue == ~connected /\ now - last_handshake >= HandshakeRetrySecs

\* The keep-alive has run out
KeepAliveExpired == connected /\ now - last_ping >= KeepAliveSecs

\* Lines 216-223: load the settings; when disconnected and the retry is due,
\* send the handshake and re-announce every device.
LoopTop(st) ==
    /\ pc = "top"
    /\ settings' = st
    /\ IF HandshakeDue
       THEN \E k \in 0..(1 + Cardinality(DOMAIN devices)) :
              /\ last_handshake' = now
              /\ out' = Attempted(HandshakePackets(devices), k)
              /\ pc' = AfterSends(k, "recv")
              /\ hs_sent_at' = now
              /\ ev' = [op |-> "top", handshake |-> TRUE]
       ELSE /\ out' = <<>>
            /\ pc' = "recv"
            /\ ev' = [op |-> "top", handshake |-> FALSE]
            /\ UNCHANGED <<last_handshake, hs_sent_at>>
    /\ UNCHANGED <<now, connected, last_ping, buf, devices, received_message,
                   order, ping_seen_at>>

\* Lines 224-229 with the flag set to conn: socket.recv yields the
\* datagram d, which lands in buf; buf is parsed, and a Ping is echoed.
RecvStep(d, conn) ==
    /\ pc = "recv"
    /\ buf' = RecvInto(buf, d)
    /\ connected' = conn
    /\ ping_seen_at' = IF ParsesAsPing(d) THEN now ELSE ping_seen_at
    /\ ev' = [op |-> "recv", datagram |-> d]
    /\ IF ParsesAsPing(BufBytes(buf'))
       THEN \E k \in 0..1 :
              /\ last_ping' = now
              /\ out' = <<RawPacket(Take(BufBytes(buf'), RecvLen(d)))>>
              /\ pc' = AfterSends(k, "recv")
       ELSE /\ out' = <<>>
            /\ UNCHANGED <<last_ping, pc>>
    /\ UNCHANGED <<now, last_handshake, devices, settings, received_message,
                   order, hs_sent_at>>

\* (mutant) only a Ping marks the link connected
RecvDatagramPingOnly(d) ==
    RecvStep(d, connected \/ ParsesAsPing(BufBytes(RecvInto(buf, d))))

\* Lines 224-229: connected = true for every datagram.
RecvDatagram(d) == RecvStep(d, TRUE)

\* Lines 224, 231-235: socket.recv reports nothing pending; the keep-alive
\* check; received_message = false.
RecvEnd ==
    /\ pc = "recv"
    /\ connected' = IF KeepAliveExpired THEN FALSE ELSE connected
    /\ received_message' = FALSE
    /\ pc' = "drain"
    /\ out' = <<>>
    /\ ev' = [op |-> "keepalive", expired |-> KeepAliveExpired]
    /\ UNCHANGED <<now, last_handshake, last_ping, buf, devices, settings,
                   order, hs_sent_at, ping_seen_at>>

\* (mutant) a known serial is registered again, under the next id
ReRegister(devs, serial) ==
    [devs EXCEPT ![serial] = [imu |-> ImuNew, design |-> @.design, id |-> NextId(devs)]]

\* Line 84: devices.get_mut(serial).unwrap().imu = Imu::new()
ResetImu(devs, serial) == [devs EXCEPT ![serial].imu = ImuNew]

\* Lines 236-238 and 82-95: the drain yields Connected(serial, design).
ParseConnected(serial, design) ==
    /\ pc = "drain"
    /\ received_message' = TRUE
    /\ ev' = [op |-> "connected", serial |-> serial, design |-> design,
              known |-> serial \in DOMAIN devices]
    /\ IF serial \in DOMAIN devices
       THEN /\ devices' = ResetImu(devices, serial)
            /\ out' = <<>>
            /\ UNCHANGED <<pc, order>>
       ELSE LET device == [design |-> design, imu |-> ImuNew, id |-> NextId(devices)]
            IN  \E k \in 0..1 :
                  /\ out' = <<SensorInfoPacket(device.id)>>
                  /\ pc' = AfterSends(k, "drain")
                  /\ IF k = 0
                     THEN /\ devices' = (serial :> device) @@ devices
                          /\ order' = Append(order, serial)
                     ELSE UNCHANGED <<devices, order>>
    /\ UNCHANGED <<now, connected, last_handshake, last_ping, buf, settings,
                   hs_sent_at, ping_seen_at>>

\* Lines 97-135: the Data message of a registered serial
DataKnown(serial, imu_data) ==
    \E k \in 0..2 :
      /\ devices' = [devices EXCEPT
                       ![serial].imu = ImuAfter(devices[serial].imu, imu_data)]
      /\ out' = Attempted(DataPackets(devices[serial], imu_data,
                             JoyconRotationGet(settings, serial)), k)
      /\ pc' = AfterSends(k, "drain")
      /\ UNCHANGED order

\* (mutant) a Data message of an unknown serial registers the serial
ParseDataRegistering(serial, imu_data) ==
    /\ pc = "drain"
    /\ received_message' = TRUE
    /\ ev' = [op |-> "data", serial |-> serial, known |-> serial \in DOMAIN devices]
    /\ IF serial \in DOMAIN devices
       THEN DataKnown(serial, imu_data)
       ELSE /\ out' = <<>>
            /\ devices' = (serial :> [design |-> "left", imu |-> ImuNew,
                                      id |-> NextId(devices)]) @@ devices
            /\ order' = Append(order, serial)
            /\ UNCHANGED pc
    /\ UNCHANGED <<now, connected, last_handshake, last_ping, buf, settings,
                   hs_sent_at, ping_seen_at>>

\* Lines 236-238 and 96-136: the drain yields Data(serial, imu_data).
ParseData(serial, imu_data) ==
    /\ pc = "drain"
    /\ received_message' = TRUE
    /\ ev' = [op |-> "data", serial |-> serial, known |-> serial \in DOMAIN devices]
    /\ IF serial \in DOMAIN devices
       THEN DataKnown(serial, imu_data)
       ELSE /\ out' = <<>>
            /\ UNCHANGED <<pc, devices, order>>
    /\ UNCHANGED <<now, connected, last_handshake, last_ping, buf, settings,
                   hs_sent_at, ping_seen_at>>

\* Lines 236, 241-255: the drain ends; publish the snapshot when publish
\* says so (output_tx.send may find the consumer gone, which ends the thread
\* when the result is unwrapped), else sleep.  The
\* Vec lists the devices in the HashMap's order, which is unspecified: the
\* snapshot is kept as its entries, one per pass of the loop over the map.
\* settings and received_message go out of scope with the iteration.
DrainStep(publish, unwrap) ==
    /\ pc = "drain"
    /\ out' = <<>>
    /\ IF publish
       THEN \E delivered \in BOOLEAN :
              /\ ev' = [op |-> "publish",
                        statuses |-> {StatusOf(devices, settings, s) : s \in DOMAIN devices},
                        delivered |-> delivered]
              /\ pc' = IF unwrap /\ ~delivered THEN "panicked" ELSE "top"
       ELSE /\ ev' = [op |-> "sleep"]
            /\ pc' = "top"
    /\ settings' = NoSettings
    /\ received_message' = FALSE
    /\ UNCHANGED <<now, connected, last_handshake, last_ping, buf, devices,
                   order, hs_sent_at, ping_seen_at>>

\* (mutant) a snapshot is published at the end of every iteration
DrainEndPublishingAlways == DrainStep(TRUE, FALSE)

\* (mutant) output_tx.send(statuses).unwrap()
DrainEndUnwrapping == DrainStep(received_message, TRUE)

\* Lines 241-255: `if received_message`, and `let _drop =` takes the result
\* of output_tx.send whatever it is.
DrainEnd == DrainStep(received_message, FALSE)

\* A second passes.  The drain reads no clock, so a second that passes while
\* the thread drains is one that passes before the next iteration.
Tick(limit) ==
    /\ pc \in {"top", "recv"}
    /\ now < limit
    /\ now' = now + 1
    /\ out' = <<>>
    /\ ev' = [op |-> "tick"]
    /\ UNCHANGED <<pc, connected, last_handshake, last_ping, buf, devices,
                   settings, received_message, order, hs_sent_at, ping_seen_at>>

\* The messages of every serial, design and sample, and the datagrams, all
\* within the first second of the run.
Next ==
    \/ \E st \in SettingsSet : LoopTop(st)
    \/ \E d \in Datagrams : RecvDatagram(d)
    \/ RecvEnd
    \/ \E s \in Serials, g \in Designs : ParseConnected(s, g)
    \/ \E s \in Serials, f \in ImuDataSet : ParseData(s, f)
    \/ DrainEnd

Spec == Init /\ [][Next]_vars

\* The link to the receiver over MaxTime seconds, with LinkSerials devices of
\* one design and one configuration.
LinkNext ==
    \/ LoopTop([s \in 1..LinkSerials |-> 0])
    \/ \E d \in Datagrams : RecvDatagram(d)
    \/ RecvEnd
    \/ \E s \in 1..LinkSerials : ParseConnected(s, "left")
    \/ \E s \in 1..LinkSerials : ParseData(s, <<FrameTurn, FrameTurn, FrameRest>>)
    \/ DrainEnd
    \/ Tick(MaxTime)

LinkSpec == Init /\ [][LinkNext]_vars

\* The registry as ManySerials serials announce themselves one after the
\* other.  Serials are interchangeable, so the next new serial is named by
\* the number of serials registered so far; serial 1 also reconnects.
WrapNext ==
    \/ LoopTop([s \in {1} |-> 0])
    \/ RecvEnd
    \/ \E s \in {1, Cardinality(DOMAIN devices) + 1} \cap (1..ManySerials) :
          ParseConnected(s, "left")
    \/ DrainEnd

WrapSpec == Init /\ [][WrapNext]_vars

\* ------------------------------------------------- the fusion arithmetic
\* The unit quaternions whose coordinates are multiples of 1/5
UnitQuats ==
    { q \in [1..4 -> {5 * c : c \in -5..5}] :
        q[1]*q[1] + q[2]*q[2] + q[3]*q[3] + q[4]*q[4] = One * One }

\* The conjugate, which for a unit quaternion is the inverse
QConj(q) == <<-q[1], -q[2], -q[3], q[4]>>

\* What the accelerometer of a device at rest reads: one g along the
\* world's vertical, seen from the device, q^-1 * (0, 0, 1) * q.
RestReading(q) ==
    LET v == QMul(QMul(QConj(q), <<0, 0, One, 0>>), q)
    IN  [gyro |-> QIdentity, accel_x |-> v[1], accel_y |-> v[2], accel_z |-> v[3]]

\* One sample to turn into the two packets: the device's orientation, the
\* accelerometer frame and the mounting offset configured for the serial.
FusionInit ==
    /\ pc = "drain"
    /\ now = 0
    /\ connected = FALSE
    /\ last_handshake = 0
    /\ last_ping = 0
    /\ buf = <<>>
    /\ devices = <<>>
    /\ settings = NoSettings
    /\ received_message = TRUE
    /\ out = <<>>
    /\ \E q \in UnitQuats, o \in Offsets :
         \E a \in {RestReading(q), FrameRest, FramePush} :
            ev = [op |-> "sample", rotation |-> q, axisdata |-> a,
                  joycon_rotation |-> o]
    /\ order = <<>>
    /\ hs_sent_at = 0
    /\ ping_seen_at = -1

\* rotated_quat and calc_acceleration of the sample, as the Data handler
\* puts them in its two packets
Fuse ==
    /\ ev.op = "sample"
    /\ out' = << RotationDataPacket(0, RotatedQuat(ev.rotation, ev.joycon_rotation)),
                 AccelerationPacket(0,
                     CalcAcceleration(ev.rotation, ev.axisdata, ev.joycon_rotation)) >>
    /\ ev' = [ev EXCEPT !.op = "fused"]
    /\ UNCHANGED <<pc, now, connected, last_handshake, last_ping, buf, devices,
                   settings, received_message, order, hs_sent_at, ping_seen_at>>

FusionNext == Fuse

FusionSpec == FusionInit /\ [][FusionNext]_vars

\* ------------------------------------------------------------ claims
\* A Handshake packet is among pkts
HandshakeIn(pkts) == \E i \in 1..Len(pkts) : pkts[i].type = "Handshake"

\* C1: the sensor id of every registered device is the number of distinct
\* serials registered before it: 0 for the first, 1 for the next, and so on.
C1_IdCountsEarlierSerials ==
    \A i \in 1..Len(order) : devices[order[i]].id = i - 1

\* C2: no two registered devices hold the same sensor id, however many
\* serials are registered: there are as many ids in use as devices.
C2_IdsNeverShared ==
    Cardinality({devices[s].id : s \in DOMAIN devices}) = Cardinality(DOMAIN devices)

\* C3: a Connected message for a registered serial resets that device's
\* fusion state and nothing else: its id and design stay, the registry keeps
\* its serials, every other device is untouched, no packet is sent and the
\* thread goes on draining.
C3_ReconnectResetsOnlyFusion ==
    [][ (ev'.op = "connected" /\ ev'.known) =>
          /\ DOMAIN devices' = DOMAIN devices
          /\ devices'[ev'.serial].imu = ImuNew
          /\ devices'[ev'.serial].id = devices[ev'.serial].id
          /\ devices'[ev'.serial].design = devices[ev'.serial].design
          /\ \A s \in DOMAIN devices \ {ev'.serial} : devices'[s] = devices[s]
          /\ order' = order
          /\ out' = <<>>
          /\ pc' = "drain" ]_vars

\* C3: a registered serial reconnects under another design while the other
\* registered device holds a fusion state that is not fresh.
C3_Witness ==
    /\ ev.op = "connected"
    /\ ev.known
    /\ ev.design # devices[ev.serial].design
    /\ devices[ev.serial].id = 0
    /\ \E s \in DOMAIN devices : s # ev.serial /\ devices[s].imu # ImuNew

\* C4: a Handshake packet is sent only by the first step of an iteration that
\* starts with the connected flag false, and never less than 3 seconds after
\* the Handshake packet before it.
C4_HandshakeOnlyDisconnectedAndSpaced ==
    [][ HandshakeIn(out') =>
          /\ pc = "top"
          /\ ~connected
          /\ ~connected'
          /\ hs_sent_at = -1 \/ now' - hs_sent_at >= HandshakeRetrySecs ]_vars

\* C4: the handshake is sent again, with the two registered devices
\* re-announced, 3 seconds after the first one.
C4_Witness ==
    /\ ev.op = "top"
    /\ ev.handshake
    /\ Len(out) = 3
    /\ now = HandshakeRetrySecs
    /\ hs_sent_at = now

\* C5: right after any datagram is received, a Ping or not, the connected
\* flag is true.
C5_DatagramSetsConnected ==
    ev.op = "recv" => connected

\* C5: a datagram that is no Ping arrives when the last Ping is 3 seconds
\* old, and the flag is true.
C5_Witness ==
    /\ ev.op = "recv"
    /\ ev.datagram = HeartbeatDatagram
    /\ connected
    /\ out = <<>>
    /\ ping_seen_at >= 0
    /\ now - ping_seen_at >= KeepAliveSecs

\* C6: after the keep-alive check, the connected flag is false when a Ping
\* was received and the last one is 3 or more seconds old; and the check
\* clears the flag only when no Ping came in the last 3 seconds.
C6_KeepAliveExpiry ==
    ev.op = "keepalive" =>
      /\ (ping_seen_at >= 0 /\ now - ping_seen_at >= KeepAliveSecs) => ~connected
      /\ ev.expired => (ping_seen_at = -1 \/ now - ping_seen_at >= KeepAliveSecs)

\* C7: a received datagram that parses as a Ping causes exactly one send, of
\* the received bytes; one that does not parse as a Ping causes no send.
C7_OnlyPingsAreEchoed ==
    ev.op = "recv" =>
      out = (IF ParsesAsPing(ev.datagram) THEN <<RawPacket(ev.datagram)>> ELSE <<>>)

\* C8: a Data message for a registered serial produces exactly two packets,
\* RotationData and then Acceleration, both with the device's sensor id.
C8_DataSendsRotationThenAcceleration ==
    (ev.op = "data" /\ ev.known) =>
      /\ Len(out) = 2
      /\ out[1].type = "RotationData"
      /\ out[2].type = "Acceleration"
      /\ out[1].sensor_id = devices[ev.serial].id
      /\ out[2].sensor_id = devices[ev.serial].id

\* C9: a Data message for a serial that is not registered changes nothing:
\* no packet, no new device, the registry as it was, and the thread goes on
\* draining.
C9_UnknownDataDropped ==
    [][ (ev'.op = "data" /\ ~ev'.known) =>
          /\ devices' = devices
          /\ order' = order
          /\ out' = <<>>
          /\ pc' = "drain" ]_vars

\* C9: a Data message for an unregistered serial was drained while another
\* serial is registered with a fusion state that is not fresh.
C9_Witness ==
    /\ ev.op = "data"
    /\ ~ev.known
    /\ ev.serial \notin DOMAIN devices
    /\ \E s \in DOMAIN devices : devices[s].imu # ImuNew

\* C10: a Connected message for a serial not yet registered sends exactly one
\* SensorInfo packet, with the id given to the serial, and the serial is in
\* the registry afterwards.
C10_NewSerialAnnouncedAndAdded ==
    (ev.op = "connected" /\ ~ev.known) =>
      /\ ev.serial \in DOMAIN devices
      /\ out = <<SensorInfoPacket(devices[ev.serial].id)>>

\* C11: in every published snapshot the connected field of each device
\* entry equals the thread's connected flag at the moment the snapshot is
\* built: false while the thread is Disconnected.
C11_SnapshotCopiesConnected ==
    ev.op = "publish" => \A e \in ev.statuses : e.connected = connected

\* C12: a failed packet send ends nothing: whichever send fails, of the
\* handshake, a SensorInfo, a RotationData, an Acceleration or a ping echo,
\* the thread is still at one of the positions of its loop afterwards.
C12_SendFailureNotFatal ==
    pc \in {"top", "recv", "drain"}

\* v with its horizontal plane turned by deg degrees
TurnXY(v, deg) ==
    << Mul(v[1], CosDeg(deg)) - Mul(v[2], SinDeg(deg)),
       Mul(v[1], SinDeg(deg)) + Mul(v[2], CosDeg(deg)),
       v[3] >>

\* C13: the orientation in the RotationData packet is the raw orientation
\* exactly when the serial's offset is zero, and for every other offset it
\* is the raw orientation composed with a turn about the vertical axis by
\* that offset, the angle by which the horizontal plane of the acceleration
\* is turned.
C13_OrientationTurnedByOffset ==
    ev.op = "fused" =>
      /\ out[1].quat =
           IF ev.joycon_rotation = 0
           THEN ev.rotation
           ELSE QMul(ev.rotation, FromAxisAngleZ(ev.joycon_rotation))
      /\ out[2].vector =
           TurnXY(CalcAcceleration(ev.rotation, ev.axisdata, 0), ev.joycon_rotation)

\* C14: with offset 0, a sample whose accelerometer reading is the gravity
\* vector of the device's orientation gives the linear acceleration
\* (0, 0, 0).
C14_RestingDeviceHasNoLinearAcceleration ==
    (/\ ev.op = "fused"
     /\ ev.joycon_rotation = 0
     /\ ev.axisdata = RestReading(ev.rotation))
      => out[2].vector = <<0, 0, 0>>

\* C14: a device at rest, tilted so that gravity has a part along each of
\* its three axes, was sampled with offset 0.
C14_Witness ==
    /\ ev.op = "fused"
    /\ ev.joycon_rotation = 0
    /\ ev.axisdata = RestReading(ev.rotation)
    /\ ev.axisdata.accel_x # 0
    /\ ev.axisdata.accel_y # 0
    /\ ev.axisdata.accel_z # 0
    /\ out[2].type = "Acceleration"

\* C15: a handshake step sends the Handshake first and then one SensorInfo
\* for each registered device, every device once, in strictly ascending
\* order of sensor id; it sets the last-attempt time to now and leaves the
\* connected flag false.
C15_HandshakeThenEveryDeviceAscending ==
    (ev.op = "top" /\ ev.handshake) =>
      /\ Len(out) = 1 + Cardinality(DOMAIN devices)
      /\ out[1] = HandshakePacket
      /\ \A i \in 2..Len(out) : out[i].type = "SensorInfo"
      /\ \A i, j \in 2..Len(out) : i < j => out[i].sensor_id < out[j].sensor_id
      /\ {out[i].sensor_id : i \in 2..Len(out)} = {devices[s].id : s \in DOMAIN devices}
      /\ last_handshake = now
      /\ ~connected

C17_OnlyPingResetsKeepAlive ==
    [][ (ev'.op = "recv" /\ ~ParsesAsPing(ev'.datagram)) =>
          /\ connected'
          /\ last_ping' = last_ping ]_vars

\* C18: when the snapshot cannot be enqueued because the consumer is gone,
\* the thread goes on to its next iteration.
C18_LostSnapshotNotFatal ==
    (ev.op = "publish" /\ ~ev.delivered) => pc = "top"

\* C18: a snapshot with a device in it found the consumer gone.
C18_Witness ==
    /\ ev.op = "publish"
    /\ ~ev.delivered
    /\ ev.statuses # {}
    /\ pc = "top"

\* C19: where the messages are drained and the snapshot is built, the
\* connected flag is true only if the last Ping, or the start of the loop
\* when no Ping was received, is less than 3 seconds old; a datagram that is
\* not a Ping, arriving later than that, does not keep the flag set.
C19_ConnectedOnlyWithinKeepAlive ==
    (pc = "drain" /\ connected) =>
        now - (IF ping_seen_at = -1 THEN 0 ELSE ping_seen_at) < KeepAliveSecs

\* C20: the first iteration, whenever it runs, finds the thread
\* Disconnected with no device registered and sends the Handshake, and
\* nothing after it.
C20_FirstIterationHandshakes ==
    [][ (pc = "top" /\ pc' # "top" /\ hs_sent_at = -1) =>
          /\ ~connected
          /\ devices = <<>>
          /\ ev'.op = "top"
          /\ ev'.handshake
          /\ out' = <<HandshakePacket>> ]_vars

\* C20: the Handshake was sent alone at the very start of the run, before
\* any datagram or message.
C20_Witness ==
    /\ ev.op = "top"
    /\ ev.handshake
    /\ now = 0
    /\ hs_sent_at = 0
    /\ out = <<HandshakePacket>>
    /\ devices = <<>>
    /\ buf = <<>>
    /\ pc = "recv"

====
